---- MODULE Spec2Model ----
(***************************************************************************)
(* Model of the marketing-bot core: the Counter Store (utils/stats.py),    *)
(* the Alert Dispatcher (api/telegram.py) and the Classifier               *)
(* (api/analysis.py).                                                      *)
(*                                                                         *)
(* Python values are tagged records so that values of different Python     *)
(* types can be compared: None, str (a tuple of characters), numbers (a    *)
(* confidence is kept in hundredths: 0.87 is 87), bool, list and dict (a   *)
(* function from key to value, with the keys in order of insertion).  A    *)
(* str whose characters are the JSON serialisation of a document v is      *)
(* JText(v); every other str is not valid JSON.                            *)
(***************************************************************************)
EXTENDS Integers, Sequences, FiniteSets, TLC

VARIABLES
    stats,        \* the global Stats instance (utils/stats.py:34)
    application,  \* TelegramAPI.application: "None" or "built"
    tasks,        \* the concurrent send_*_alert coroutines, one record each
    delivered,    \* notification channel: messages delivered per kind and id
    ncalls,       \* number of send_*_alert calls started so far (bounded)
    an            \* the analyze_text coroutine: locals and position

vars == <<stats, application, tasks, delivered, ncalls, an>>

-----------------------------------------------------------------------------
(* Bounds *)

MaxCalls == 2
MaxTextLen == 2

-----------------------------------------------------------------------------
(* Python values *)

None == [t |-> "null"]
JStr(s) == [t |-> "str", s |-> s]
JNum(n) == [t |-> "num", n |-> n]
JBool(b) == [t |-> "bool", b |-> b]
JList(l) == [t |-> "list", l |-> l]
\* a dict keeps its keys in the order of their insertion: ks is that order,
\* d the value of each key
Dict(ks, d) == [t |-> "dict", ks |-> ks, d |-> d]
\* the keys of a list of <<key, value>> items, each once, as first met
RECURSIVE ItemKeys(_)
ItemKeys(items) ==
    IF items = <<>> THEN <<>>
    ELSE LET front == ItemKeys(SubSeq(items, 1, Len(items) - 1))
             k == items[Len(items)][1]
         IN  IF \E i \in 1..Len(front) : front[i] = k THEN front ELSE Append(front, k)
\* the dict of a display or a JSON object, written as its <<key, value>>
\* items in order: a key written twice keeps its first place and its last
\* value
JDict(items) ==
    Dict(ItemKeys(items),
         [k \in {items[i][1] : i \in 1..Len(items)} |->
             items[CHOOSE i \in 1..Len(items) :
                       /\ items[i][1] = k
                       /\ \A j \in (i + 1)..Len(items) : items[j][1] # k][2]])
JText(v) == [t |-> "jsontext", doc |-> v]
EmptyDict == <<>>

\* dict.get(key, default) on a Python value; "raise" when the value has no .get
HasGet(v) == v.t = "dict"
Get(v, key, default) == IF key \in DOMAIN v.d THEN v.d[key] ELSE default

\* dict.setdefault(key, default): only an absent key is filled, and it
\* becomes the last key
SetDefault(v, key, default) ==
    IF key \in DOMAIN v.d THEN v
    ELSE Dict(Append(v.ks, key), v.d @@ (key :> default))

\* v[key] = value: a present key keeps its place
SetItem(v, key, value) ==
    IF key \in DOMAIN v.d THEN Dict(v.ks, [v.d EXCEPT ![key] = value])
    ELSE Dict(Append(v.ks, key), v.d @@ (key :> value))

-----------------------------------------------------------------------------
(***************************************************************************)
(* Strings                                                                 *)
(*                                                                         *)
(* A str is a tuple of characters.  A character below U+0080 is the        *)
(* one-character string itself; a character from U+0080 on, and the grave  *)
(* accent U+0060 that a TLA+ string cannot hold, is the string "U"         *)
(* followed by its code point in upper-case hexadecimal, at least four     *)
(* digits: "U00E9" is e with acute, "U1F600" a character beyond the basic  *)
(* plane.  The character data are those of CPython 3.11 (Unicode 14.0.0),  *)
(* as code points: a run <<lo, hi, stride, delta>> maps every stride-th    *)
(* code point c of lo..hi to c + delta, a range <<lo, hi>> is lo..hi.      *)
(***************************************************************************)

HexDigit == <<"0","1","2","3","4","5","6","7","8","9","A","B","C","D","E","F">>
RECURSIVE Hex(_, _)
Hex(n, width) ==
    IF n = 0 /\ width <= 0 THEN ""
    ELSE Hex(n \div 16, width - 1) \o HexDigit[(n % 16) + 1]

\* the character with code point n, for n from 128 on
Chr(n) == "U" \o Hex(n, 4)

UpperOf == [c \in {"a","b","c","d","e","f","g","h","i","j","k","l","m","n","o",
                   "p","q","r","s","t","u","v","w","x","y","z"} |->
    CASE c = "a" -> "A" [] c = "b" -> "B" [] c = "c" -> "C" [] c = "d" -> "D"
      [] c = "e" -> "E" [] c = "f" -> "F" [] c = "g" -> "G" [] c = "h" -> "H"
      [] c = "i" -> "I" [] c = "j" -> "J" [] c = "k" -> "K" [] c = "l" -> "L"
      [] c = "m" -> "M" [] c = "n" -> "N" [] c = "o" -> "O" [] c = "p" -> "P"
      [] c = "q" -> "Q" [] c = "r" -> "R" [] c = "s" -> "S" [] c = "t" -> "T"
      [] c = "u" -> "U" [] c = "v" -> "V" [] c = "w" -> "W" [] c = "x" -> "X"
      [] c = "y" -> "Y" [] c = "z" -> "Z"]

\* lower case of the characters from U+0080 on whose lower case is one
\* character from U+0080 on
LowerRuns ==
    <<<<192, 214, 1, 32>>, <<216, 222, 1, 32>>, <<256, 302, 2, 1>>,
      <<306, 310, 2, 1>>, <<313, 327, 2, 1>>, <<330, 374, 2, 1>>,
      <<376, 376, 1, -121>>, <<377, 381, 2, 1>>, <<385, 385, 1, 210>>,
      <<386, 388, 2, 1>>, <<390, 390, 1, 206>>, <<391, 391, 1, 1>>,
      <<393, 394, 1, 205>>, <<395, 395, 1, 1>>, <<398, 398, 1, 79>>,
      <<399, 399, 1, 202>>, <<400, 400, 1, 203>>, <<401, 401, 1, 1>>,
      <<403, 403, 1, 205>>, <<404, 404, 1, 207>>, <<406, 406, 1, 211>>,
      <<407, 407, 1, 209>>, <<408, 408, 1, 1>>, <<412, 412, 1, 211>>,
      <<413, 413, 1, 213>>, <<415, 415, 1, 214>>, <<416, 420, 2, 1>>,
      <<422, 422, 1, 218>>, <<423, 423, 1, 1>>, <<425, 425, 1, 218>>,
      <<428, 428, 1, 1>>, <<430, 430, 1, 218>>, <<431, 431, 1, 1>>,
      <<433, 434, 1, 217>>, <<435, 437, 2, 1>>, <<439, 439, 1, 219>>,
      <<440, 440, 1, 1>>, <<444, 444, 1, 1>>, <<452, 452, 1, 2>>,
      <<453, 453, 1, 1>>, <<455, 455, 1, 2>>, <<456, 456, 1, 1>>,
      <<458, 458, 1, 2>>, <<459, 475, 2, 1>>, <<478, 494, 2, 1>>,
      <<497, 497, 1, 2>>, <<498, 500, 2, 1>>, <<502, 502, 1, -97>>,
      <<503, 503, 1, -56>>, <<504, 542, 2, 1>>, <<544, 544, 1, -130>>,
      <<546, 562, 2, 1>>, <<570, 570, 1, 10795>>, <<571, 571, 1, 1>>,
      <<573, 573, 1, -163>>, <<574, 574, 1, 10792>>, <<577, 577, 1, 1>>,
      <<579, 579, 1, -195>>, <<580, 580, 1, 69>>, <<581, 581, 1, 71>>,
      <<582, 590, 2, 1>>, <<880, 882, 2, 1>>, <<886, 886, 1, 1>>,
      <<895, 895, 1, 116>>, <<902, 902, 1, 38>>, <<904, 906, 1, 37>>,
      <<908, 908, 1, 64>>, <<910, 911, 1, 63>>, <<913, 929, 1, 32>>,
      <<932, 939, 1, 32>>, <<975, 975, 1, 8>>, <<984, 1006, 2, 1>>,
      <<1012, 1012, 1, -60>>, <<1015, 1015, 1, 1>>, <<1017, 1017, 1, -7>>,
      <<1018, 1018, 1, 1>>, <<1021, 1023, 1, -130>>, <<1024, 1039, 1, 80>>,
      <<1040, 1071, 1, 32>>, <<1120, 1152, 2, 1>>, <<1162, 1214, 2, 1>>,
      <<1216, 1216, 1, 15>>, <<1217, 1229, 2, 1>>, <<1232, 1326, 2, 1>>,
      <<1329, 1366, 1, 48>>, <<4256, 4293, 1, 7264>>, <<4295, 4295, 1, 7264>>,
      <<4301, 4301, 1, 7264>>, <<5024, 5103, 1, 38864>>, <<5104, 5109, 1, 8>>,
      <<7312, 7354, 1, -3008>>, <<7357, 7359, 1, -3008>>,
      <<7680, 7828, 2, 1>>, <<7838, 7838, 1, -7615>>, <<7840, 7934, 2, 1>>,
      <<7944, 7951, 1, -8>>, <<7960, 7965, 1, -8>>, <<7976, 7983, 1, -8>>,
      <<7992, 7999, 1, -8>>, <<8008, 8013, 1, -8>>, <<8025, 8031, 2, -8>>,
      <<8040, 8047, 1, -8>>, <<8072, 8079, 1, -8>>, <<8088, 8095, 1, -8>>,
      <<8104, 8111, 1, -8>>, <<8120, 8121, 1, -8>>, <<8122, 8123, 1, -74>>,
      <<8124, 8124, 1, -9>>, <<8136, 8139, 1, -86>>, <<8140, 8140, 1, -9>>,
      <<8152, 8153, 1, -8>>, <<8154, 8155, 1, -100>>, <<8168, 8169, 1, -8>>,
      <<8170, 8171, 1, -112>>, <<8172, 8172, 1, -7>>, <<8184, 8185, 1, -128>>,
      <<8186, 8187, 1, -126>>, <<8188, 8188, 1, -9>>,
      <<8486, 8486, 1, -7517>>, <<8491, 8491, 1, -8262>>,
      <<8498, 8498, 1, 28>>, <<8544, 8559, 1, 16>>, <<8579, 8579, 1, 1>>,
      <<9398, 9423, 1, 26>>, <<11264, 11311, 1, 48>>, <<11360, 11360, 1, 1>>,
      <<11362, 11362, 1, -10743>>, <<11363, 11363, 1, -3814>>,
      <<11364, 11364, 1, -10727>>, <<11367, 11371, 2, 1>>,
      <<11373, 11373, 1, -10780>>, <<11374, 11374, 1, -10749>>,
      <<11375, 11375, 1, -10783>>, <<11376, 11376, 1, -10782>>,
      <<11378, 11378, 1, 1>>, <<11381, 11381, 1, 1>>,
      <<11390, 11391, 1, -10815>>, <<11392, 11490, 2, 1>>,
      <<11499, 11501, 2, 1>>, <<11506, 11506, 1, 1>>, <<42560, 42604, 2, 1>>,
      <<42624, 42650, 2, 1>>, <<42786, 42798, 2, 1>>, <<42802, 42862, 2, 1>>,
      <<42873, 42875, 2, 1>>, <<42877, 42877, 1, -35332>>,
      <<42878, 42886, 2, 1>>, <<42891, 42891, 1, 1>>,
      <<42893, 42893, 1, -42280>>, <<42896, 42898, 2, 1>>,
      <<42902, 42920, 2, 1>>, <<42922, 42922, 1, -42308>>,
      <<42923, 42923, 1, -42319>>, <<42924, 42924, 1, -42315>>,
      <<42925, 42925, 1, -42305>>, <<42926, 42926, 1, -42308>>,
      <<42928, 42928, 1, -42258>>, <<42929, 42929, 1, -42282>>,
      <<42930, 42930, 1, -42261>>, <<42931, 42931, 1, 928>>,
      <<42932, 42946, 2, 1>>, <<42948, 42948, 1, -48>>,
      <<42949, 42949, 1, -42307>>, <<42950, 42950, 1, -35384>>,
      <<42951, 42953, 2, 1>>, <<42960, 42960, 1, 1>>, <<42966, 42968, 2, 1>>,
      <<42997, 42997, 1, 1>>, <<65313, 65338, 1, 32>>,
      <<66560, 66599, 1, 40>>, <<66736, 66771, 1, 40>>,
      <<66928, 66964, 2, 39>>, <<66929, 66937, 2, 39>>,
      <<66941, 66953, 2, 39>>, <<66957, 66961, 2, 39>>,
      <<66965, 66965, 1, 39>>, <<68736, 68786, 1, 64>>,
      <<71840, 71871, 1, 32>>, <<93760, 93791, 1, 32>>,
      <<125184, 125217, 1, 34>>>>

\* the other characters from U+0080 on that str.lower() changes; capital
\* sigma (U+03A3) depends on its neighbours and is in Lower
LowerSpecial ==
    [U0130 |-> <<"i", "U0307">>, U212A |-> <<"k">>]

\* title case of the characters from U+0080 on whose title case is one
\* character from U+0080 on
TitleRuns ==
    <<<<181, 181, 1, 743>>, <<224, 246, 1, -32>>, <<248, 254, 1, -32>>,
      <<255, 255, 1, 121>>, <<257, 303, 2, -1>>, <<307, 311, 2, -1>>,
      <<314, 328, 2, -1>>, <<331, 375, 2, -1>>, <<378, 382, 2, -1>>,
      <<384, 384, 1, 195>>, <<387, 389, 2, -1>>, <<392, 392, 1, -1>>,
      <<396, 396, 1, -1>>, <<402, 402, 1, -1>>, <<405, 405, 1, 97>>,
      <<409, 409, 1, -1>>, <<410, 410, 1, 163>>, <<414, 414, 1, 130>>,
      <<417, 421, 2, -1>>, <<424, 424, 1, -1>>, <<429, 429, 1, -1>>,
      <<432, 432, 1, -1>>, <<436, 438, 2, -1>>, <<441, 441, 1, -1>>,
      <<445, 445, 1, -1>>, <<447, 447, 1, 56>>, <<452, 452, 1, 1>>,
      <<454, 454, 1, -1>>, <<455, 455, 1, 1>>, <<457, 457, 1, -1>>,
      <<458, 458, 1, 1>>, <<460, 476, 2, -1>>, <<477, 477, 1, -79>>,
      <<479, 495, 2, -1>>, <<497, 497, 1, 1>>, <<499, 501, 2, -1>>,
      <<505, 543, 2, -1>>, <<547, 563, 2, -1>>, <<572, 572, 1, -1>>,
      <<575, 576, 1, 10815>>, <<578, 578, 1, -1>>, <<583, 591, 2, -1>>,
      <<592, 592, 1, 10783>>, <<593, 593, 1, 10780>>, <<594, 594, 1, 10782>>,
      <<595, 595, 1, -210>>, <<596, 596, 1, -206>>, <<598, 599, 1, -205>>,
      <<601, 601, 1, -202>>, <<603, 603, 1, -203>>, <<604, 604, 1, 42319>>,
      <<608, 608, 1, -205>>, <<609, 609, 1, 42315>>, <<611, 611, 1, -207>>,
      <<613, 613, 1, 42280>>, <<614, 614, 1, 42308>>, <<616, 616, 1, -209>>,
      <<617, 617, 1, -211>>, <<618, 618, 1, 42308>>, <<619, 619, 1, 10743>>,
      <<620, 620, 1, 42305>>, <<623, 623, 1, -211>>, <<625, 625, 1, 10749>>,
      <<626, 626, 1, -213>>, <<629, 629, 1, -214>>, <<637, 637, 1, 10727>>,
      <<640, 640, 1, -218>>, <<642, 642, 1, 42307>>, <<643, 643, 1, -218>>,
      <<647, 647, 1, 42282>>, <<648, 648, 1, -218>>, <<649, 649, 1, -69>>,
      <<650, 651, 1, -217>>, <<652, 652, 1, -71>>, <<658, 658, 1, -219>>,
      <<669, 669, 1, 42261>>, <<670, 670, 1, 42258>>, <<837, 837, 1, 84>>,
      <<881, 883, 2, -1>>, <<887, 887, 1, -1>>, <<891, 893, 1, 130>>,
      <<940, 940, 1, -38>>, <<941, 943, 1, -37>>, <<945, 961, 1, -32>>,
      <<962, 962, 1, -31>>, <<963, 971, 1, -32>>, <<972, 972, 1, -64>>,
      <<973, 974, 1, -63>>, <<976, 976, 1, -62>>, <<977, 977, 1, -57>>,
      <<981, 981, 1, -47>>, <<982, 982, 1, -54>>, <<983, 983, 1, -8>>,
      <<985, 1007, 2, -1>>, <<1008, 1008, 1, -86>>, <<1009, 1009, 1, -80>>,
      <<1010, 1010, 1, 7>>, <<1011, 1011, 1, -116>>, <<1013, 1013, 1, -96>>,
      <<1016, 1016, 1, -1>>, <<1019, 1019, 1, -1>>, <<1072, 1103, 1, -32>>,
      <<1104, 1119, 1, -80>>, <<1121, 1153, 2, -1>>, <<1163, 1215, 2, -1>>,
      <<1218, 1230, 2, -1>>, <<1231, 1231, 1, -15>>, <<1233, 1327, 2, -1>>,
      <<1377, 1414, 1, -48>>, <<5112, 5117, 1, -8>>, <<7296, 7296, 1, -6254>>,
      <<7297, 7297, 1, -6253>>, <<7298, 7298, 1, -6244>>,
      <<7299, 7300, 1, -6242>>, <<7301, 7301, 1, -6243>>,
      <<7302, 7302, 1, -6236>>, <<7303, 7303, 1, -6181>>,
      <<7304, 7304, 1, 35266>>, <<7545, 7545, 1, 35332>>,
      <<7549, 7549, 1, 3814>>, <<7566, 7566, 1, 35384>>,
      <<7681, 7829, 2, -1>>, <<7835, 7835, 1, -59>>, <<7841, 7935, 2, -1>>,
      <<7936, 7943, 1, 8>>, <<7952, 7957, 1, 8>>, <<7968, 7975, 1, 8>>,
      <<7984, 7991, 1, 8>>, <<8000, 8005, 1, 8>>, <<8017, 8023, 2, 8>>,
      <<8032, 8039, 1, 8>>, <<8048, 8049, 1, 74>>, <<8050, 8053, 1, 86>>,
      <<8054, 8055, 1, 100>>, <<8056, 8057, 1, 128>>, <<8058, 8059, 1, 112>>,
      <<8060, 8061, 1, 126>>, <<8064, 8071, 1, 8>>, <<8080, 8087, 1, 8>>,
      <<8096, 8103, 1, 8>>, <<8112, 8113, 1, 8>>, <<8115, 8115, 1, 9>>,
      <<8126, 8126, 1, -7205>>, <<8131, 8131, 1, 9>>, <<8144, 8145, 1, 8>>,
      <<8160, 8161, 1, 8>>, <<8165, 8165, 1, 7>>, <<8179, 8179, 1, 9>>,
      <<8526, 8526, 1, -28>>, <<8560, 8575, 1, -16>>, <<8580, 8580, 1, -1>>,
      <<9424, 9449, 1, -26>>, <<11312, 11359, 1, -48>>,
      <<11361, 11361, 1, -1>>, <<11365, 11365, 1, -10795>>,
      <<11366, 11366, 1, -10792>>, <<11368, 11372, 2, -1>>,
      <<11379, 11379, 1, -1>>, <<11382, 11382, 1, -1>>,
      <<11393, 11491, 2, -1>>, <<11500, 11502, 2, -1>>,
      <<11507, 11507, 1, -1>>, <<11520, 11557, 1, -7264>>,
      <<11559, 11559, 1, -7264>>, <<11565, 11565, 1, -7264>>,
      <<42561, 42605, 2, -1>>, <<42625, 42651, 2, -1>>,
      <<42787, 42799, 2, -1>>, <<42803, 42863, 2, -1>>,
      <<42874, 42876, 2, -1>>, <<42879, 42887, 2, -1>>,
      <<42892, 42892, 1, -1>>, <<42897, 42899, 2, -1>>,
      <<42900, 42900, 1, 48>>, <<42903, 42921, 2, -1>>,
      <<42933, 42947, 2, -1>>, <<42952, 42954, 2, -1>>,
      <<42961, 42961, 1, -1>>, <<42967, 42969, 2, -1>>,
      <<42998, 42998, 1, -1>>, <<43859, 43859, 1, -928>>,
      <<43888, 43967, 1, -38864>>, <<65345, 65370, 1, -32>>,
      <<66600, 66639, 1, -40>>, <<66776, 66811, 1, -40>>,
      <<66967, 67003, 2, -39>>, <<66968, 66976, 2, -39>>,
      <<66980, 66992, 2, -39>>, <<66996, 67000, 2, -39>>,
      <<67004, 67004, 1, -39>>, <<68800, 68850, 1, -64>>,
      <<71872, 71903, 1, -32>>, <<93792, 93823, 1, -32>>,
      <<125218, 125251, 1, -34>>>>

\* the other characters from U+0080 on that have a title case
TitleSpecial ==
    [U00DF |-> <<"S", "s">>, U0131 |-> <<"I">>, U0149 |-> <<"U02BC", "N">>,
     U017F |-> <<"S">>, U01F0 |-> <<"J", "U030C">>,
     U0390 |-> <<"U0399", "U0308", "U0301">>,
     U03B0 |-> <<"U03A5", "U0308", "U0301">>, U0587 |-> <<"U0535", "U0582">>,
     U1E96 |-> <<"H", "U0331">>, U1E97 |-> <<"T", "U0308">>,
     U1E98 |-> <<"W", "U030A">>, U1E99 |-> <<"Y", "U030A">>,
     U1E9A |-> <<"A", "U02BE">>, U1F50 |-> <<"U03A5", "U0313">>,
     U1F52 |-> <<"U03A5", "U0313", "U0300">>,
     U1F54 |-> <<"U03A5", "U0313", "U0301">>,
     U1F56 |-> <<"U03A5", "U0313", "U0342">>, U1FB2 |-> <<"U1FBA", "U0345">>,
     U1FB4 |-> <<"U0386", "U0345">>, U1FB6 |-> <<"U0391", "U0342">>,
     U1FB7 |-> <<"U0391", "U0342", "U0345">>, U1FC2 |-> <<"U1FCA", "U0345">>,
     U1FC4 |-> <<"U0389", "U0345">>, U1FC6 |-> <<"U0397", "U0342">>,
     U1FC7 |-> <<"U0397", "U0342", "U0345">>,
     U1FD2 |-> <<"U0399", "U0308", "U0300">>,
     U1FD3 |-> <<"U0399", "U0308", "U0301">>, U1FD6 |-> <<"U0399", "U0342">>,
     U1FD7 |-> <<"U0399", "U0308", "U0342">>,
     U1FE2 |-> <<"U03A5", "U0308", "U0300">>,
     U1FE3 |-> <<"U03A5", "U0308", "U0301">>, U1FE4 |-> <<"U03A1", "U0313">>,
     U1FE6 |-> <<"U03A5", "U0342">>, U1FE7 |-> <<"U03A5", "U0308", "U0342">>,
     U1FF2 |-> <<"U1FFA", "U0345">>, U1FF4 |-> <<"U038F", "U0345">>,
     U1FF6 |-> <<"U03A9", "U0342">>, U1FF7 |-> <<"U03A9", "U0342", "U0345">>,
     UFB00 |-> <<"F", "f">>, UFB01 |-> <<"F", "i">>, UFB02 |-> <<"F", "l">>,
     UFB03 |-> <<"F", "f", "i">>, UFB04 |-> <<"F", "f", "l">>,
     UFB05 |-> <<"S", "t">>, UFB06 |-> <<"S", "t">>,
     UFB13 |-> <<"U0544", "U0576">>, UFB14 |-> <<"U0544", "U0565">>,
     UFB15 |-> <<"U0544", "U056B">>, UFB16 |-> <<"U054E", "U0576">>,
     UFB17 |-> <<"U0544", "U056D">>]

\* the cased characters from U+0080 on (upper case, lower case or title case)
CasedRanges ==
    <<<<170, 170>>, <<181, 181>>, <<186, 186>>, <<192, 214>>, <<216, 246>>,
      <<248, 442>>, <<444, 447>>, <<452, 659>>, <<661, 696>>, <<704, 705>>,
      <<736, 740>>, <<837, 837>>, <<880, 883>>, <<886, 887>>, <<890, 893>>,
      <<895, 895>>, <<902, 902>>, <<904, 906>>, <<908, 908>>, <<910, 929>>,
      <<931, 1013>>, <<1015, 1153>>, <<1162, 1327>>, <<1329, 1366>>,
      <<1376, 1416>>, <<4256, 4293>>, <<4295, 4295>>, <<4301, 4301>>,
      <<4304, 4346>>, <<4349, 4351>>, <<5024, 5109>>, <<5112, 5117>>,
      <<7296, 7304>>, <<7312, 7354>>, <<7357, 7359>>, <<7424, 7615>>,
      <<7680, 7957>>, <<7960, 7965>>, <<7968, 8005>>, <<8008, 8013>>,
      <<8016, 8023>>, <<8025, 8025>>, <<8027, 8027>>, <<8029, 8029>>,
      <<8031, 8061>>, <<8064, 8116>>, <<8118, 8124>>, <<8126, 8126>>,
      <<8130, 8132>>, <<8134, 8140>>, <<8144, 8147>>, <<8150, 8155>>,
      <<8160, 8172>>, <<8178, 8180>>, <<8182, 8188>>, <<8305, 8305>>,
      <<8319, 8319>>, <<8336, 8348>>, <<8450, 8450>>, <<8455, 8455>>,
      <<8458, 8467>>, <<8469, 8469>>, <<8473, 8477>>, <<8484, 8484>>,
      <<8486, 8486>>, <<8488, 8488>>, <<8490, 8493>>, <<8495, 8500>>,
      <<8505, 8505>>, <<8508, 8511>>, <<8517, 8521>>, <<8526, 8526>>,
      <<8544, 8575>>, <<8579, 8580>>, <<9398, 9449>>, <<11264, 11492>>,
      <<11499, 11502>>, <<11506, 11507>>, <<11520, 11557>>, <<11559, 11559>>,
      <<11565, 11565>>, <<42560, 42605>>, <<42624, 42653>>, <<42786, 42887>>,
      <<42891, 42894>>, <<42896, 42954>>, <<42960, 42961>>, <<42963, 42963>>,
      <<42965, 42969>>, <<42997, 42998>>, <<43000, 43002>>, <<43824, 43866>>,
      <<43868, 43880>>, <<43888, 43967>>, <<64256, 64262>>, <<64275, 64279>>,
      <<65313, 65338>>, <<65345, 65370>>, <<66560, 66639>>, <<66736, 66771>>,
      <<66776, 66811>>, <<66928, 66938>>, <<66940, 66954>>, <<66956, 66962>>,
      <<66964, 66965>>, <<66967, 66977>>, <<66979, 66993>>, <<66995, 67001>>,
      <<67003, 67004>>, <<67456, 67456>>, <<67459, 67461>>, <<67463, 67504>>,
      <<67506, 67514>>, <<68736, 68786>>, <<68800, 68850>>, <<71840, 71903>>,
      <<93760, 93823>>, <<119808, 119892>>, <<119894, 119964>>,
      <<119966, 119967>>, <<119970, 119970>>, <<119973, 119974>>,
      <<119977, 119980>>, <<119982, 119993>>, <<119995, 119995>>,
      <<119997, 120003>>, <<120005, 120069>>, <<120071, 120074>>,
      <<120077, 120084>>, <<120086, 120092>>, <<120094, 120121>>,
      <<120123, 120126>>, <<120128, 120132>>, <<120134, 120134>>,
      <<120138, 120144>>, <<120146, 120485>>, <<120488, 120512>>,
      <<120514, 120538>>, <<120540, 120570>>, <<120572, 120596>>,
      <<120598, 120628>>, <<120630, 120654>>, <<120656, 120686>>,
      <<120688, 120712>>, <<120714, 120744>>, <<120746, 120770>>,
      <<120772, 120779>>, <<122624, 122633>>, <<122635, 122654>>,
      <<125184, 125251>>, <<127280, 127305>>, <<127312, 127337>>,
      <<127344, 127369>>>>

\* the case-ignorable characters from U+0080 on
CaseIgnorableRanges ==
    <<<<168, 168>>, <<173, 173>>, <<175, 175>>, <<180, 180>>, <<183, 184>>,
      <<688, 879>>, <<884, 885>>, <<890, 890>>, <<900, 901>>, <<903, 903>>,
      <<1155, 1161>>, <<1369, 1369>>, <<1375, 1375>>, <<1425, 1469>>,
      <<1471, 1471>>, <<1473, 1474>>, <<1476, 1477>>, <<1479, 1479>>,
      <<1524, 1524>>, <<1536, 1541>>, <<1552, 1562>>, <<1564, 1564>>,
      <<1600, 1600>>, <<1611, 1631>>, <<1648, 1648>>, <<1750, 1757>>,
      <<1759, 1768>>, <<1770, 1773>>, <<1807, 1807>>, <<1809, 1809>>,
      <<1840, 1866>>, <<1958, 1968>>, <<2027, 2037>>, <<2042, 2042>>,
      <<2045, 2045>>, <<2070, 2093>>, <<2137, 2139>>, <<2184, 2184>>,
      <<2192, 2193>>, <<2200, 2207>>, <<2249, 2306>>, <<2362, 2362>>,
      <<2364, 2364>>, <<2369, 2376>>, <<2381, 2381>>, <<2385, 2391>>,
      <<2402, 2403>>, <<2417, 2417>>, <<2433, 2433>>, <<2492, 2492>>,
      <<2497, 2500>>, <<2509, 2509>>, <<2530, 2531>>, <<2558, 2558>>,
      <<2561, 2562>>, <<2620, 2620>>, <<2625, 2626>>, <<2631, 2632>>,
      <<2635, 2637>>, <<2641, 2641>>, <<2672, 2673>>, <<2677, 2677>>,
      <<2689, 2690>>, <<2748, 2748>>, <<2753, 2757>>, <<2759, 2760>>,
      <<2765, 2765>>, <<2786, 2787>>, <<2810, 2815>>, <<2817, 2817>>,
      <<2876, 2876>>, <<2879, 2879>>, <<2881, 2884>>, <<2893, 2893>>,
      <<2901, 2902>>, <<2914, 2915>>, <<2946, 2946>>, <<3008, 3008>>,
      <<3021, 3021>>, <<3072, 3072>>, <<3076, 3076>>, <<3132, 3132>>,
      <<3134, 3136>>, <<3142, 3144>>, <<3146, 3149>>, <<3157, 3158>>,
      <<3170, 3171>>, <<3201, 3201>>, <<3260, 3260>>, <<3263, 3263>>,
      <<3270, 3270>>, <<3276, 3277>>, <<3298, 3299>>, <<3328, 3329>>,
      <<3387, 3388>>, <<3393, 3396>>, <<3405, 3405>>, <<3426, 3427>>,
      <<3457, 3457>>, <<3530, 3530>>, <<3538, 3540>>, <<3542, 3542>>,
      <<3633, 3633>>, <<3636, 3642>>, <<3654, 3662>>, <<3761, 3761>>,
      <<3764, 3772>>, <<3782, 3782>>, <<3784, 3789>>, <<3864, 3865>>,
      <<3893, 3893>>, <<3895, 3895>>, <<3897, 3897>>, <<3953, 3966>>,
      <<3968, 3972>>, <<3974, 3975>>, <<3981, 3991>>, <<3993, 4028>>,
      <<4038, 4038>>, <<4141, 4144>>, <<4146, 4151>>, <<4153, 4154>>,
      <<4157, 4158>>, <<4184, 4185>>, <<4190, 4192>>, <<4209, 4212>>,
      <<4226, 4226>>, <<4229, 4230>>, <<4237, 4237>>, <<4253, 4253>>,
      <<4348, 4348>>, <<4957, 4959>>, <<5906, 5908>>, <<5938, 5939>>,
      <<5970, 5971>>, <<6002, 6003>>, <<6068, 6069>>, <<6071, 6077>>,
      <<6086, 6086>>, <<6089, 6099>>, <<6103, 6103>>, <<6109, 6109>>,
      <<6155, 6159>>, <<6211, 6211>>, <<6277, 6278>>, <<6313, 6313>>,
      <<6432, 6434>>, <<6439, 6440>>, <<6450, 6450>>, <<6457, 6459>>,
      <<6679, 6680>>, <<6683, 6683>>, <<6742, 6742>>, <<6744, 6750>>,
      <<6752, 6752>>, <<6754, 6754>>, <<6757, 6764>>, <<6771, 6780>>,
      <<6783, 6783>>, <<6823, 6823>>, <<6832, 6862>>, <<6912, 6915>>,
      <<6964, 6964>>, <<6966, 6970>>, <<6972, 6972>>, <<6978, 6978>>,
      <<7019, 7027>>, <<7040, 7041>>, <<7074, 7077>>, <<7080, 7081>>,
      <<7083, 7085>>, <<7142, 7142>>, <<7144, 7145>>, <<7149, 7149>>,
      <<7151, 7153>>, <<7212, 7219>>, <<7222, 7223>>, <<7288, 7293>>,
      <<7376, 7378>>, <<7380, 7392>>, <<7394, 7400>>, <<7405, 7405>>,
      <<7412, 7412>>, <<7416, 7417>>, <<7468, 7530>>, <<7544, 7544>>,
      <<7579, 7679>>, <<8125, 8125>>, <<8127, 8129>>, <<8141, 8143>>,
      <<8157, 8159>>, <<8173, 8175>>, <<8189, 8190>>, <<8203, 8207>>,
      <<8216, 8217>>, <<8228, 8228>>, <<8231, 8231>>, <<8234, 8238>>,
      <<8288, 8292>>, <<8294, 8303>>, <<8305, 8305>>, <<8319, 8319>>,
      <<8336, 8348>>, <<8400, 8432>>, <<11388, 11389>>, <<11503, 11505>>,
      <<11631, 11631>>, <<11647, 11647>>, <<11744, 11775>>, <<11823, 11823>>,
      <<12293, 12293>>, <<12330, 12333>>, <<12337, 12341>>, <<12347, 12347>>,
      <<12441, 12446>>, <<12540, 12542>>, <<40981, 40981>>, <<42232, 42237>>,
      <<42508, 42508>>, <<42607, 42610>>, <<42612, 42621>>, <<42623, 42623>>,
      <<42652, 42655>>, <<42736, 42737>>, <<42752, 42785>>, <<42864, 42864>>,
      <<42888, 42890>>, <<42994, 42996>>, <<43000, 43001>>, <<43010, 43010>>,
      <<43014, 43014>>, <<43019, 43019>>, <<43045, 43046>>, <<43052, 43052>>,
      <<43204, 43205>>, <<43232, 43249>>, <<43263, 43263>>, <<43302, 43309>>,
      <<43335, 43345>>, <<43392, 43394>>, <<43443, 43443>>, <<43446, 43449>>,
      <<43452, 43453>>, <<43471, 43471>>, <<43493, 43494>>, <<43561, 43566>>,
      <<43569, 43570>>, <<43573, 43574>>, <<43587, 43587>>, <<43596, 43596>>,
      <<43632, 43632>>, <<43644, 43644>>, <<43696, 43696>>, <<43698, 43700>>,
      <<43703, 43704>>, <<43710, 43711>>, <<43713, 43713>>, <<43741, 43741>>,
      <<43756, 43757>>, <<43763, 43764>>, <<43766, 43766>>, <<43867, 43871>>,
      <<43881, 43883>>, <<44005, 44005>>, <<44008, 44008>>, <<44013, 44013>>,
      <<64286, 64286>>, <<64434, 64450>>, <<65024, 65039>>, <<65043, 65043>>,
      <<65056, 65071>>, <<65106, 65106>>, <<65109, 65109>>, <<65279, 65279>>,
      <<65287, 65287>>, <<65294, 65294>>, <<65306, 65306>>, <<65342, 65342>>,
      <<65344, 65344>>, <<65392, 65392>>, <<65438, 65439>>, <<65507, 65507>>,
      <<65529, 65531>>, <<66045, 66045>>, <<66272, 66272>>, <<66422, 66426>>,
      <<67456, 67461>>, <<67463, 67504>>, <<67506, 67514>>, <<68097, 68099>>,
      <<68101, 68102>>, <<68108, 68111>>, <<68152, 68154>>, <<68159, 68159>>,
      <<68325, 68326>>, <<68900, 68903>>, <<69291, 69292>>, <<69446, 69456>>,
      <<69506, 69509>>, <<69633, 69633>>, <<69688, 69702>>, <<69744, 69744>>,
      <<69747, 69748>>, <<69759, 69761>>, <<69811, 69814>>, <<69817, 69818>>,
      <<69821, 69821>>, <<69826, 69826>>, <<69837, 69837>>, <<69888, 69890>>,
      <<69927, 69931>>, <<69933, 69940>>, <<70003, 70003>>, <<70016, 70017>>,
      <<70070, 70078>>, <<70089, 70092>>, <<70095, 70095>>, <<70191, 70193>>,
      <<70196, 70196>>, <<70198, 70199>>, <<70206, 70206>>, <<70367, 70367>>,
      <<70371, 70378>>, <<70400, 70401>>, <<70459, 70460>>, <<70464, 70464>>,
      <<70502, 70508>>, <<70512, 70516>>, <<70712, 70719>>, <<70722, 70724>>,
      <<70726, 70726>>, <<70750, 70750>>, <<70835, 70840>>, <<70842, 70842>>,
      <<70847, 70848>>, <<70850, 70851>>, <<71090, 71093>>, <<71100, 71101>>,
      <<71103, 71104>>, <<71132, 71133>>, <<71219, 71226>>, <<71229, 71229>>,
      <<71231, 71232>>, <<71339, 71339>>, <<71341, 71341>>, <<71344, 71349>>,
      <<71351, 71351>>, <<71453, 71455>>, <<71458, 71461>>, <<71463, 71467>>,
      <<71727, 71735>>, <<71737, 71738>>, <<71995, 71996>>, <<71998, 71998>>,
      <<72003, 72003>>, <<72148, 72151>>, <<72154, 72155>>, <<72160, 72160>>,
      <<72193, 72202>>, <<72243, 72248>>, <<72251, 72254>>, <<72263, 72263>>,
      <<72273, 72278>>, <<72281, 72283>>, <<72330, 72342>>, <<72344, 72345>>,
      <<72752, 72758>>, <<72760, 72765>>, <<72767, 72767>>, <<72850, 72871>>,
      <<72874, 72880>>, <<72882, 72883>>, <<72885, 72886>>, <<73009, 73014>>,
      <<73018, 73018>>, <<73020, 73021>>, <<73023, 73029>>, <<73031, 73031>>,
      <<73104, 73105>>, <<73109, 73109>>, <<73111, 73111>>, <<73459, 73460>>,
      <<78896, 78904>>, <<92912, 92916>>, <<92976, 92982>>, <<92992, 92995>>,
      <<94031, 94031>>, <<94095, 94111>>, <<94176, 94177>>, <<94179, 94180>>,
      <<110576, 110579>>, <<110581, 110587>>, <<110589, 110590>>,
      <<113821, 113822>>, <<113824, 113827>>, <<118528, 118573>>,
      <<118576, 118598>>, <<119143, 119145>>, <<119155, 119170>>,
      <<119173, 119179>>, <<119210, 119213>>, <<119362, 119364>>,
      <<121344, 121398>>, <<121403, 121452>>, <<121461, 121461>>,
      <<121476, 121476>>, <<121499, 121503>>, <<121505, 121519>>,
      <<122880, 122886>>, <<122888, 122904>>, <<122907, 122913>>,
      <<122915, 122916>>, <<122918, 122922>>, <<123184, 123197>>,
      <<123566, 123566>>, <<123628, 123631>>, <<125136, 125142>>,
      <<125252, 125259>>, <<127995, 127999>>, <<917505, 917505>>,
      <<917536, 917631>>, <<917760, 917999>>>>

\* the characters of run r from its a-th to its b-th, each with its image
RECURSIVE RunMap(_, _, _)
RunMap(r, a, b) ==
    IF a = b THEN Chr(r[1] + a * r[3]) :> <<Chr(r[1] + a * r[3] + r[4])>>
    ELSE LET mid == (a + b) \div 2
         IN  RunMap(r, a, mid) @@ RunMap(r, mid + 1, b)
\* the same for the runs from the a-th to the b-th
RECURSIVE RunsMap(_, _, _)
RunsMap(runs, a, b) ==
    IF a = b THEN RunMap(runs[a], 0, (runs[a][2] - runs[a][1]) \div runs[a][3])
    ELSE LET mid == (a + b) \div 2
         IN  RunsMap(runs, a, mid) @@ RunsMap(runs, mid + 1, b)
RangesSet(ranges) ==
    {Chr(n) : n \in UNION {ranges[i][1]..ranges[i][2] : i \in 1..Len(ranges)}}

\* character -> its lower case, for every character str.lower() changes
\* whatever its neighbours
LowerOf ==
    [c \in {UpperOf[l] : l \in DOMAIN UpperOf} |->
        <<CHOOSE l \in DOMAIN UpperOf : UpperOf[l] = c>>]
    @@ LowerSpecial @@ RunsMap(LowerRuns, 1, Len(LowerRuns))

\* character -> its title case, for every character that has one
TitleOf ==
    [c \in DOMAIN UpperOf |-> <<UpperOf[c]>>] @@ TitleSpecial @@ RunsMap(TitleRuns, 1, Len(TitleRuns))

Cased ==
    DOMAIN UpperOf \cup {UpperOf[l] : l \in DOMAIN UpperOf} \cup RangesSet(CasedRanges)
CaseIgnorable == {"'", ".", ":", "^", "U0060"} \cup RangesSet(CaseIgnorableRanges)

\* the nearest character before (after) position i that is not
\* case-ignorable: its position, or 0 (Len(s) + 1) when there is none
RECURSIVE LetterBefore(_, _)
LetterBefore(s, i) ==
    IF i = 0 \/ s[i] \notin CaseIgnorable THEN i ELSE LetterBefore(s, i - 1)
RECURSIVE LetterAfter(_, _)
LetterAfter(s, i) ==
    IF i > Len(s) \/ s[i] \notin CaseIgnorable THEN i ELSE LetterAfter(s, i + 1)

\* a capital sigma at position i ends a word: a cased character comes
\* before it and none comes after it, case-ignorable characters skipped
FinalSigma(s, i) ==
    LET p == LetterBefore(s, i - 1)
        n == LetterAfter(s, i + 1)
    IN  /\ p > 0
        /\ s[p] \in Cased
        /\ (n > Len(s) \/ s[n] \notin Cased)

\* the lower case of the character at position i of s
LowerChar(s, i) ==
    IF s[i] = "U03A3" THEN IF FinalSigma(s, i) THEN <<"U03C2">> ELSE <<"U03C3">>
    ELSE IF s[i] \in DOMAIN LowerOf THEN LowerOf[s[i]]
    ELSE <<s[i]>>

\* the title case of a character
TitleChar(c) == IF c \in DOMAIN TitleOf THEN TitleOf[c] ELSE <<c>>

RECURSIVE LowerFrom(_, _)
LowerFrom(s, i) == IF i > Len(s) THEN <<>> ELSE LowerChar(s, i) \o LowerFrom(s, i + 1)

\* str.lower()
Lower(s) == LowerFrom(s, 1)

\* str.capitalize(): the first character in title case, the rest lower-cased
Capitalize(s) == IF s = <<>> THEN <<>> ELSE TitleChar(s[1]) \o LowerFrom(s, 2)

\* the Python test  sub in s
Contains(s, sub) ==
    \E i \in 0..(Len(s) - Len(sub)) : SubSeq(s, i + 1, i + Len(sub)) = sub

\* the characters c with c.isspace(): tab, line feed, vertical tab, form
\* feed, carriage return, the separators 0x1c to 0x1f, space, and the
\* white space from U+0080 on
Whitespace ==
    {"\t", "\n", "", "\f", "\r", "", "", "", "", " ",
     "U0085", "U00A0", "U1680", "U2000", "U2001", "U2002", "U2003", "U2004",
     "U2005", "U2006", "U2007", "U2008", "U2009", "U200A", "U2028", "U2029",
     "U202F", "U205F", "U3000"}

\* str.strip(): leading and trailing whitespace removed
RECURSIVE LStrip(_)
LStrip(s) == IF s # <<>> /\ Head(s) \in Whitespace THEN LStrip(Tail(s)) ELSE s
RECURSIVE RStrip(_)
RStrip(s) ==
    IF s # <<>> /\ s[Len(s)] \in Whitespace THEN RStrip(SubSeq(s, 1, Len(s) - 1)) ELSE s
Strip(s) == RStrip(LStrip(s))

\* decimal digits of a natural number, as characters
DigitChar(d) ==
    CASE d = 0 -> "0" [] d = 1 -> "1" [] d = 2 -> "2" [] d = 3 -> "3" [] d = 4 -> "4"
      [] d = 5 -> "5" [] d = 6 -> "6" [] d = 7 -> "7" [] d = 8 -> "8" [] d = 9 -> "9"
RECURSIVE Digits(_)
Digits(n) == IF n < 10 THEN <<DigitChar(n)>> ELSE Digits(n \div 10) \o <<DigitChar(n % 10)>>

sPositive == <<"p","o","s","i","t","i","v","e">>
sNegative == <<"n","e","g","a","t","i","v","e">>
sNeutral == <<"n","e","u","t","r","a","l">>
sNone == <<"N","o","n","e">>

\* a text that the program only passes along is kept whole, as one element
Verbatim(s) == <<s>>

\* sep.join(l) for a sequence of strings
RECURSIVE Join(_, _)
Join(l, sep) ==
    IF l = <<>> THEN <<>>
    ELSE IF Len(l) = 1 THEN l[1]
    ELSE l[1] \o sep \o Join(Tail(l), sep)

-----------------------------------------------------------------------------
(* Counter Store: utils/stats.py *)

Kinds == {"tweet", "news"}
Ids == {"42", "43"}
Datetime(at) == [t |-> "datetime", at |-> at]
Clock == {"t1"}
\* the items the producer records are the ones it found relevant
RelevantFlags == {TRUE}

StatsInit ==
    [tweets_processed |-> 0, tweets_relevant |-> 0, tweets_sent |-> 0,
     news_processed |-> 0, news_relevant |-> 0, news_sent |-> 0,
     last_tweet_check |-> None, last_news_check |-> None,
     processed_tweet_ids |-> {}, processed_news_ids |-> {}]

\* Stats.reset with the store's fields cleared wholesale, seen ids included
ResetClearsIds(s) == StatsInit

\* Stats.reset(): the new value of the store
ResetStats(s) ==
    [s EXCEPT !.tweets_processed = 0, !.tweets_relevant = 0, !.tweets_sent = 0,
              !.news_processed = 0, !.news_relevant = 0, !.news_sent = 0,
              !.last_tweet_check = None, !.last_news_check = None]

reset ==
    /\ stats' = ResetStats(stats)
    /\ UNCHANGED <<application, tasks, delivered, ncalls, an>>

\* The producer (outside src/): it records a polled item in the store, and
\* passes over the items whose id the store has already seen
PollerRecordTweet(id, relevant, now) ==
    /\ id \notin stats.processed_tweet_ids
    /\ stats' = [stats EXCEPT
            !.tweets_processed = @ + 1,
            !.tweets_relevant = IF relevant THEN @ + 1 ELSE @,
            !.last_tweet_check = Datetime(now),
            !.processed_tweet_ids = @ \cup {id}]
    /\ UNCHANGED <<application, tasks, delivered, ncalls, an>>

PollerRecordNews(id, relevant, now) ==
    /\ id \notin stats.processed_news_ids
    /\ stats' = [stats EXCEPT
            !.news_processed = @ + 1,
            !.news_relevant = IF relevant THEN @ + 1 ELSE @,
            !.last_news_check = Datetime(now),
            !.processed_news_ids = @ \cup {id}]
    /\ UNCHANGED <<application, tasks, delivered, ncalls, an>>

-----------------------------------------------------------------------------
(* Analysis results, as the Classifier builds them: api/analysis.py *)

sUnavailable ==
    Verbatim("Analysis currently unavailable. This news may impact markets; please review the details carefully.")
sNoCommentary == Verbatim("No commentary available")

\* AnalysisAPI._create_default_analysis
DefaultAnalysis ==
    JDict(<<<<"relevant", JBool(TRUE)>>,
           <<"sentiment", JStr(sNeutral)>>,
           <<"entities", JList(<<>>)>>,
           <<"commentary", JStr(sUnavailable)>>,
           <<"confidence", JNum(50)>>>>)

-----------------------------------------------------------------------------
(* Alert Dispatcher: api/telegram.py *)

\* two coroutines are enough for every interleaving of two deliveries
Tasks == {"t1", "t2"}

sScreenName == <<"b","o","b">>
sTweetText == Verbatim("BTC breaks out")
sHeadline == Verbatim("X Corp beats earnings")
sCommaSpace == <<",", " ">>

\* the article of a news item; the dispatcher never reads its id
ArticleOf(id) ==
    JDict(<<<<"id", JStr(Verbatim(id))>>,
           <<"headline", JStr(sHeadline)>>,
           <<"summary", JStr(Verbatim("Quarterly results"))>>,
           <<"url", JStr(Verbatim("https://news.example/" \o id))>>,
           <<"source", JStr(Verbatim("Wire"))>>>>)

PositiveAnalysis ==
    JDict(<<<<"relevant", JBool(TRUE)>>,
           <<"sentiment", JStr(sPositive)>>,
           <<"entities", JList(<<JStr(<<"X">>), JStr(<<"Y">>)>>)>>,
           <<"commentary", JStr(Verbatim("Likely bullish"))>>,
           <<"confidence", JNum(87)>>>>)

\* the analyses a caller hands to the dispatcher: results of analyze_text,
\* the "no result" sentinel included
DeliverAnalyses == {DefaultAnalysis, PositiveAnalysis, None}

Raise(e) == [ok |-> FALSE, exc |-> e]
Formatted(m) == [ok |-> TRUE, message |-> m]

\* f"{c:.0%}" of a confidence kept in hundredths
Percent(n) == (IF n < 0 THEN <<"-">> \o Digits(0 - n) ELSE Digits(n)) \o <<"%">>

\* the glyph looked up by sentiment.lower(), white when there is none
Emoji(lowered) ==
    IF lowered = sPositive THEN "GREEN_CIRCLE"
    ELSE IF lowered = sNeutral THEN "WHITE_CIRCLE"
    ELSE IF lowered = sNegative THEN "RED_CIRCLE"
    ELSE "WHITE_CIRCLE"

\* the keys of a dict, as iterating it yields them: in the order of their
\* insertion
KeysOf(v) == [i \in 1..Len(v.ks) |-> Verbatim(v.ks[i])]

\* ', '.join(v): v must be an iterable of str: a list of str, a str (joined
\* by character) or a dict (its keys are joined)
JoinEntities(v) ==
    IF v.t = "list" /\ \A i \in 1..Len(v.l) : v.l[i].t = "str"
    THEN Formatted(Join([i \in 1..Len(v.l) |-> v.l[i].s], sCommaSpace))
    ELSE IF v.t = "str"
    THEN Formatted(Join([i \in 1..Len(v.s) |-> <<v.s[i]>>], sCommaSpace))
    ELSE IF v.t = "dict"
    THEN Formatted(Join(KeysOf(v), sCommaSpace))
    ELSE Raise("TypeError")

\* send_tweet_alert, lines 64-81: the message, or the exception raised
TweetFormat(screen_name, tweet_text, tweet_id, analysis) ==
    IF ~HasGet(analysis) THEN Raise("AttributeError")
    ELSE LET sv == Get(analysis, "sentiment", JStr(sNeutral))
             cv == Get(analysis, "confidence", JNum(0))
             ev == Get(analysis, "entities", JList(<<JStr(sNone)>>))
         IN  IF sv.t # "str" THEN Raise("AttributeError")
             ELSE IF cv.t = "str" THEN Raise("ValueError")
             ELSE IF cv.t \notin {"num", "bool"} THEN Raise("TypeError")
             ELSE IF ~JoinEntities(ev).ok THEN Raise("TypeError")
             ELSE Formatted(
                 [kind |-> "tweet",
                  screen_name |-> screen_name,
                  text |-> tweet_text,
                  sentiment |-> Capitalize(sv.s),
                  emoji |-> Emoji(Lower(Capitalize(sv.s))),
                  confidence |-> Percent(IF cv.t = "bool"
                                         THEN (IF cv.b THEN 100 ELSE 0)
                                         ELSE cv.n),
                  entities |-> JoinEntities(ev).message,
                  button |-> "View Tweet",
                  url |-> <<"https://twitter.com/", screen_name, "/status/", tweet_id>>])

\* send_news_alert, lines 111-117
MarketIndicator(sentiment) ==
    IF sentiment = sPositive THEN "GREEN_CIRCLE BULLISH"
    ELSE IF sentiment = sNegative THEN "RED_CIRCLE BEARISH"
    ELSE "WHITE_CIRCLE NEUTRAL"

\* send_news_alert, lines 102-134: the message, or the exception raised
NewsFormat(article, analysis) ==
    IF ~HasGet(article) THEN Raise("AttributeError")
    ELSE IF ~HasGet(analysis) THEN Raise("AttributeError")
    ELSE LET sv == Get(analysis, "sentiment", JStr(sNeutral))
         IN  IF sv.t # "str" THEN Raise("AttributeError")
             ELSE Formatted(
                 [kind |-> "news",
                  headline |-> Get(article, "headline", JStr(Verbatim("No headline"))),
                  summary |-> Get(article, "summary", JStr(Verbatim("No summary"))),
                  source |-> Get(article, "source", JStr(Verbatim("Unknown source"))),
                  market_indicator |-> MarketIndicator(Lower(sv.s)),
                  commentary |-> Get(analysis, "commentary",
                                     JStr(Verbatim("No analysis available"))),
                  button |-> "Read Article",
                  url |-> Get(article, "url", JStr(Verbatim("#")))])

IdleTask ==
    [pc |-> "idle", kind |-> "none", id |-> "none", analysis |-> None,
     outcome |-> "none", ret |-> "unset", exc |-> "none"]

\* the message a suspended task has handed to the channel
MessageOf(task) ==
    IF task.kind = "tweet"
    THEN TweetFormat(sScreenName, sTweetText, task.id, task.analysis).message
    ELSE NewsFormat(ArticleOf(task.id), task.analysis).message

\* lines 17-24: builds the application, anew when there is one already
build_application ==
    /\ application' = "built"
    /\ UNCHANGED <<stats, tasks, delivered, ncalls, an>>

\* a call that does not look at self.application before it formats and sends
StartedWithoutGuard(kind, id, analysis, fmt) ==
    IF ~fmt.ok
    THEN [IdleTask EXCEPT !.pc = "done", !.kind = kind, !.id = id, !.exc = fmt.exc]
    ELSE [IdleTask EXCEPT !.pc = "sending", !.kind = kind, !.id = id,
                          !.analysis = analysis]

\* what a call does up to its first suspension point
Started(kind, id, analysis, fmt) ==
    IF application = "None"
    THEN [IdleTask EXCEPT !.pc = "done", !.kind = kind, !.id = id, !.ret = "None"]
    ELSE IF ~fmt.ok
    THEN [IdleTask EXCEPT !.pc = "done", !.kind = kind, !.id = id, !.exc = fmt.exc]
    ELSE [IdleTask EXCEPT !.pc = "sending", !.kind = kind, !.id = id,
                          !.analysis = analysis]

\* send_tweet_alert, lines 58-90: up to the await of bot.send_message
TweetAlertCall(t, tweet_id, analysis) ==
    /\ tasks[t].pc \in {"idle", "done"}
    /\ ncalls < MaxCalls
    /\ ncalls' = ncalls + 1
    /\ tasks' = [tasks EXCEPT ![t] =
            Started("tweet", tweet_id, analysis,
                    TweetFormat(sScreenName, sTweetText, tweet_id, analysis))]
    /\ UNCHANGED <<stats, application, delivered, an>>

\* send_news_alert, lines 96-143: up to the await of bot.send_message
NewsAlertCall(t, id, analysis) ==
    /\ tasks[t].pc \in {"idle", "done"}
    /\ ncalls < MaxCalls
    /\ ncalls' = ncalls + 1
    /\ tasks' = [tasks EXCEPT ![t] =
            Started("news", id, analysis, NewsFormat(ArticleOf(id), analysis))]
    /\ UNCHANGED <<stats, application, delivered, an>>

\* the notification channel answers a pending send: delivered, or failed
ChannelReply(t, ok) ==
    /\ tasks[t].pc = "sending"
    /\ tasks' = [tasks EXCEPT ![t].pc = "replied",
                              ![t].outcome = IF ok THEN "ok" ELSE "failed"]
    /\ delivered' = IF ok
                    THEN [delivered EXCEPT ![tasks[t].kind][tasks[t].id] = @ + 1]
                    ELSE delivered
    /\ UNCHANGED <<stats, application, ncalls, an>>

\* send_tweet_alert, lines 91-94: the store once the await has returned or raised
TweetSentUpdate(s, outcome) ==
    IF outcome = "ok" THEN [s EXCEPT !.tweets_sent = @ + 1] ELSE s

\* the store after a news send whose counter is bumped once too often
NewsSentUpdateTwice(s, outcome) ==
    IF outcome = "ok" THEN [s EXCEPT !.news_sent = @ + 2] ELSE s

\* the store after a news send that is also counted as a relevant tweet
NewsSentUpdateTouchesTweets(s, outcome) ==
    IF outcome = "ok"
    THEN [s EXCEPT !.news_sent = @ + 1, !.tweets_relevant = @ + 1]
    ELSE s

\* send_news_alert, lines 144-147: the store once the await has returned or raised
NewsSentUpdate(s, outcome) ==
    IF outcome = "ok" THEN [s EXCEPT !.news_sent = @ + 1] ELSE s

\* send_tweet_alert, lines 91-94: the coroutine resumes and falls off the end
TweetAlertResume(t) ==
    /\ tasks[t].pc = "replied"
    /\ tasks[t].kind = "tweet"
    /\ stats' = TweetSentUpdate(stats, tasks[t].outcome)
    /\ tasks' = [tasks EXCEPT ![t].pc = "done", ![t].analysis = None, ![t].ret = "None"]
    /\ UNCHANGED <<application, delivered, ncalls, an>>

\* send_news_alert, lines 144-147
NewsAlertResume(t) ==
    /\ tasks[t].pc = "replied"
    /\ tasks[t].kind = "news"
    /\ stats' = NewsSentUpdate(stats, tasks[t].outcome)
    /\ tasks' = [tasks EXCEPT ![t].pc = "done", ![t].analysis = None, ![t].ret = "None"]
    /\ UNCHANGED <<application, delivered, ncalls, an>>

-----------------------------------------------------------------------------
(* Classifier: api/analysis.py *)

sModelNotFound == <<"m","o","d","e","l"," ","n","o","t"," ","f","o","u","n","d">>
sInvalidModel == <<"i","n","v","a","l","i","d"," ","m","o","d","e","l">>

\* error bodies the classification service may answer with
bModelNotFoundMixed == <<"M","o","d","e","l"," ","N","o","t"," ","F","o","u","n","d">>
bModelNotFoundLower == <<"t","h","e"," ","m","o","d","e","l"," ","n","o","t"," ","f","o","u","n","d">>
bInvalidModelUpper == <<"I","N","V","A","L","I","D"," ","M","O","D","E","L">>
bInvalidModelLower == <<"i","n","v","a","l","i","d"," ","m","o","d","e","l"," ","x">>
bServerError == <<"I","n","t","e","r","n","a","l"," ","S","e","r","v","e","r"," ","E","r","r","o","r">>
bNearMiss == <<"m","o","d","e","l"," ","f","o","u","n","d">>
bEmpty == <<>>

ErrorBodies ==
    {bModelNotFoundMixed, bModelNotFoundLower, bInvalidModelUpper, bInvalidModelLower,
     bServerError, bNearMiss, bEmpty}
ErrorStatuses == {400, 404, 500}


TextAlphabet == {" ", "U00A0", "a"}
Texts == UNION {[1..n -> TextAlphabet] : n \in 0..MaxTextLen}

\* documents the service may put, serialised, in the content of its answer
DocFull ==
    JDict(<<<<"relevant", JBool(FALSE)>>,
           <<"sentiment", JStr(sNegative)>>,
           <<"entities", JList(<<JStr(<<"X">>)>>)>>,
           <<"commentary", JStr(Verbatim("Likely bearish"))>>,
           <<"confidence", JNum(87)>>>>)
DocNoConfidence ==
    JDict(<<<<"relevant", JBool(FALSE)>>,
           <<"sentiment", JStr(sPositive)>>,
           <<"entities", JList(<<JStr(<<"X">>)>>)>>,
           <<"commentary", JStr(Verbatim("Likely bullish"))>>>>)
DocEmpty == JDict(EmptyDict)
DocOnlySentiment == JDict(<<<<"sentiment", JStr(sNegative)>>>>)
DocConfidenceTooHigh == JDict(<<<<"confidence", JNum(150)>>>>)
DocConfidenceString == JDict(<<<<"confidence", JStr(<<"h","i","g","h">>)>>>>)
DocSentimentUnknown == JDict(<<<<"sentiment", JStr(<<"b","u","l","l","i","s","h">>)>>>>)
DocSentimentNull == JDict(<<<<"sentiment", None>>>>)
DocRelevantString == JDict(<<<<"relevant", JStr(<<"y","e","s">>)>>>>)
DocEntitiesNull == JDict(<<<<"entities", None>>>>)
DocEntitiesDict == JDict(<<<<"entities", JDict(<<<<"Y", JNum(1)>>, <<"X", JNum(2)>>>>)>>>>)
DocExtraKey == JDict(<<<<"sentiment", JStr(sPositive)>>, <<"note", JStr(<<"x">>)>>>>)

ObjectDocs ==
    {DocFull, DocNoConfidence, DocEmpty, DocOnlySentiment, DocConfidenceTooHigh,
     DocConfidenceString, DocSentimentUnknown, DocSentimentNull, DocRelevantString,
     DocEntitiesNull, DocEntitiesDict, DocExtraKey}

\* the content of the first choice: JSON text of an object or of another
\* document, text that is not JSON, or no text at all
Contents ==
    {JText(d) : d \in ObjectDocs}
    \cup {JText(JList(<<>>)), JText(JNum(5)), JText(None), JText(JStr(<<"x">>))}
    \cup {JStr(<<"o","o","p","s">>), JStr(<<>>), None, JNum(5)}

WithContent(c) == JDict(<<<<"choices", JList(<<JDict(<<<<"message", JDict(<<<<"content", c>>>>)>>>>)>>)>>>>)

\* the decoded JSON bodies of a 200 answer
Payloads ==
    {WithContent(c) : c \in Contents}
    \cup {JDict(EmptyDict),
          JDict(<<<<"choices", JList(<<>>)>>>>),
          JDict(<<<<"choices", None>>>>),
          JDict(<<<<"choices", JList(<<None>>)>>>>),
          JDict(<<<<"choices", JList(<<JDict(EmptyDict)>>)>>>>),
          JDict(<<<<"choices", JList(<<JDict(<<<<"message", None>>>>)>>)>>>>),
          JDict(<<<<"choices", JList(<<JDict(<<<<"message", JDict(EmptyDict)>>>>)>>)>>>>),
          JDict(<<<<"choices", JList(<<JDict(<<<<"message", JDict(<<<<"content", JText(DocFull)>>>>)>>>>),
                                     JDict(<<<<"message", JDict(<<<<"content", JText(DocEmpty)>>>>)>>>>)>>)>>>>),
          JDict(<<<<"choices", JStr(<<"a","b","c">>)>>>>),
          JDict(<<<<"choices", JStr(<<>>)>>>>),
          JList(<<>>),
          None}

NotJson == [t |-> "invalid"]

\* what the await of a request can end in: a transport exception, or an
\* answer with an error status or with 200
Responses ==
    {[kind |-> "exception", status |-> 0]}
    \cup {[kind |-> "http", status |-> st] : st \in ErrorStatuses \cup {200}}

\* what the await of response.text() can end in: the body, or an exception
TextReads ==
    {[ok |-> TRUE, text |-> b] : b \in ErrorBodies} \cup {[ok |-> FALSE, text |-> <<>>]}

\* what the await of response.json() can end in: the decoded body, or an
\* exception when the body does not decode
JsonReads == Payloads \cup {NotJson}

\* line 24:  not text or not text.strip()  without the strip
IsBlankNoStrip(text) == text = <<>>

\* line 24:  not text or not text.strip()
IsBlank(text) == text = <<>> \/ Strip(text) = <<>>

\* line 82 with the match made on the body as received, case kept
ModelUnavailableCaseSensitive(error_text) ==
    \/ Contains(error_text, sModelNotFound)
    \/ Contains(error_text, sInvalidModel)

\* line 82 with every error status retried
ModelUnavailableAlways(error_text) == TRUE

\* line 82: the test that sends the call to the alternative model
ModelUnavailable(error_text) ==
    \/ Contains(Lower(error_text), sModelNotFound)
    \/ Contains(Lower(error_text), sInvalidModel)

\* json.loads(content)
JsonLoads(content) ==
    IF content.t = "jsontext" THEN Formatted(content.doc)
    ELSE IF content.t = "str" THEN Raise("JSONDecodeError")
    ELSE Raise("TypeError")

\* lines 110-114 with the defaults assigned, as analysis.update(defaults) would
FillDefaultsOverwrite(v) ==
    SetItem(SetItem(SetItem(SetItem(SetItem(v,
        "relevant", JBool(TRUE)),
        "sentiment", JStr(sNeutral)),
        "entities", JList(<<>>)),
        "commentary", JStr(sNoCommentary)),
        "confidence", JNum(50))

\* lines 110-114: absent fields are filled, present ones are kept
FillDefaults(v) ==
    SetDefault(SetDefault(SetDefault(SetDefault(SetDefault(v,
        "relevant", JBool(TRUE)),
        "sentiment", JStr(sNeutral)),
        "entities", JList(<<>>)),
        "commentary", JStr(sNoCommentary)),
        "confidence", JNum(50))

\* lines 105-117: the analysis extracted from a decoded answer, or the
\* exception raised on the way
Extract(result) ==
    IF ~HasGet(result) THEN Raise("AttributeError")
    ELSE LET choices == Get(result, "choices", JList(<<JDict(EmptyDict)>>))
         IN  IF choices.t = "dict" THEN Raise("KeyError")
             ELSE IF choices.t = "str"
             THEN (IF choices.s = <<>> THEN Raise("IndexError")
                   ELSE Raise("AttributeError"))
             ELSE IF choices.t # "list" THEN Raise("TypeError")
             ELSE IF choices.l = <<>> THEN Raise("IndexError")
             ELSE IF ~HasGet(choices.l[1]) THEN Raise("AttributeError")
             ELSE LET message == Get(choices.l[1], "message", JDict(EmptyDict))
                  IN  IF ~HasGet(message) THEN Raise("AttributeError")
                      ELSE LET content == Get(message, "content", JText(JDict(EmptyDict)))
                               loaded == JsonLoads(content)
                           IN  IF ~loaded.ok THEN loaded
                               ELSE IF loaded.message.t # "dict" THEN Raise("AttributeError")
                               ELSE Formatted(FillDefaults(loaded.message))

Unset == [t |-> "unset"]

\* the locals of one call of analyze_text and where it stands: decoded is
\* the local named result in the code, exits the async-with blocks the call
\* has still to leave, result the value returned
IdleAnalyze ==
    [pc |-> "idle", text |-> <<>>, model |-> "none", requests |-> <<>>,
     primary |-> "none", status |-> 0, error_text |-> <<>>,
     retry |-> "none", retry_status |-> 0, retry_error |-> <<>>,
     decoded |-> Unset, exits |-> <<>>,
     exc |-> "none", result |-> Unset]

\* lines 118-125 with the exception handlers returning None, as the
\* docstring of analyze_text has it ("or None if error")
DefaultedReturnsNone(a, e) == [a EXCEPT !.pc = "done", !.exc = e, !.result = None]

\* lines 118-125: every exception of the call ends in the default analysis
Defaulted(a, e) == [a EXCEPT !.pc = "done", !.exc = e, !.result = DefaultAnalysis]

\* lines 104-121: the call returns what it extracts from the decoded answer
Returned(a, json) ==
    IF Extract(json).ok
    THEN [a EXCEPT !.pc = "done", !.result = Extract(json).message]
    ELSE Defaulted(a, Extract(json).exc)

\* the call is on its way out of the async-with blocks named in exits
Closing(a, exits) == [a EXCEPT !.pc = "closing", !.exits = exits]

\* once the last block is left: an exception in flight reaches line 123, a
\* return at line 96 or 100 completes, or lines 104-121 run
Finish(a) ==
    IF a.exc # "none" THEN Defaulted(a, a.exc)
    ELSE IF a.decoded = Unset THEN [a EXCEPT !.pc = "done", !.result = DefaultAnalysis]
    ELSE Returned(a, a.decoded)

\* lines 13-73: the call, up to the await of the primary request
Begin(text) ==
    IF IsBlank(text)
    THEN [IdleAnalyze EXCEPT !.pc = "done", !.text = text, !.result = None]
    ELSE [IdleAnalyze EXCEPT !.pc = "primary", !.text = text, !.model = "gpt-4",
                             !.requests = <<"gpt-4">>]

\* lines 73-78 and 102: the primary request is answered, or fails in transport
PrimaryStep(a, resp) ==
    IF resp.kind = "exception"
    THEN Closing([a EXCEPT !.primary = "exception", !.exc = "ClientError"],
                 <<"session">>)
    ELSE IF resp.status # 200
    THEN [a EXCEPT !.pc = "primary_text", !.primary = "error", !.status = resp.status]
    ELSE [a EXCEPT !.pc = "primary_json", !.primary = "ok", !.status = 200]

\* lines 78-100: the error body is read; the retry is posted or the call
\* returns the default analysis
PrimaryTextStep(a, read) ==
    IF ~read.ok
    THEN Closing([a EXCEPT !.exc = "ClientError"], <<"response", "session">>)
    ELSE IF ModelUnavailable(read.text)
    THEN [a EXCEPT !.pc = "retry", !.error_text = read.text,
                   !.model = "gpt-3.5-turbo",
                   !.requests = Append(@, "gpt-3.5-turbo")]
    ELSE Closing([a EXCEPT !.error_text = read.text], <<"response", "session">>)

\* line 102: the body of the 200 answer is decoded
PrimaryJsonStep(a, json) ==
    IF json = NotJson
    THEN Closing([a EXCEPT !.exc = "ContentTypeError"], <<"response", "session">>)
    ELSE Closing([a EXCEPT !.decoded = json], <<"response", "session">>)

\* lines 89-98: the retry is answered, or fails in transport
RetryStep(a, resp) ==
    IF resp.kind = "exception"
    THEN Closing([a EXCEPT !.retry = "exception", !.exc = "ClientError"],
                 <<"response", "session">>)
    ELSE IF resp.status # 200
    THEN [a EXCEPT !.pc = "retry_text", !.retry = "error", !.retry_status = resp.status]
    ELSE [a EXCEPT !.pc = "retry_json", !.retry = "ok", !.retry_status = 200]

\* lines 94-96 with a failed retry tried again whenever the body asks for it
RetryTextStepAgain(a, read) ==
    IF read.ok /\ ModelUnavailable(read.text)
    THEN [a EXCEPT !.pc = "retry", !.retry_error = read.text,
                   !.requests = Append(@, "gpt-3.5-turbo")]
    ELSE Closing(a, <<"retry_response", "response", "session">>)

\* lines 94-96: the retry's error body is read and the call returns the
\* default analysis, whatever the body says
RetryTextStep(a, read) ==
    IF ~read.ok
    THEN Closing([a EXCEPT !.exc = "ClientError"],
                 <<"retry_response", "response", "session">>)
    ELSE Closing([a EXCEPT !.retry_error = read.text],
                 <<"retry_response", "response", "session">>)

\* line 98: the body of the retry's 200 answer is decoded
RetryJsonStep(a, json) ==
    IF json = NotJson
    THEN Closing([a EXCEPT !.exc = "ContentTypeError"],
                 <<"retry_response", "response", "session">>)
    ELSE Closing([a EXCEPT !.decoded = json],
                 <<"retry_response", "response", "session">>)

\* the innermost block still open is left; after the last one the call ends
ExitStep(a) ==
    IF Len(a.exits) > 1 THEN [a EXCEPT !.exits = Tail(@)]
    ELSE Finish([a EXCEPT !.exits = <<>>])

analyze_text(text) ==
    /\ an.pc \in {"idle", "done"}
    /\ an' = Begin(text)
    /\ UNCHANGED <<stats, application, tasks, delivered, ncalls>>

\* the answer handled by a classifier that also counted the item as processed
PrimaryResponseCountsProcessed(resp) ==
    /\ an.pc = "primary"
    /\ an' = PrimaryStep(an, resp)
    /\ stats' = [stats EXCEPT !.tweets_processed = @ + 1]
    /\ UNCHANGED <<application, tasks, delivered, ncalls>>

\* line 73: the await of session.post returns or raises
PrimaryResponse(resp) ==
    /\ an.pc = "primary"
    /\ an' = PrimaryStep(an, resp)
    /\ UNCHANGED <<stats, application, tasks, delivered, ncalls>>

\* line 78: the await of response.text() returns or raises
PrimaryText(read) ==
    /\ an.pc = "primary_text"
    /\ an' = PrimaryTextStep(an, read)
    /\ UNCHANGED <<stats, application, tasks, delivered, ncalls>>

\* line 102: the await of response.json() returns or raises
PrimaryJson(json) ==
    /\ an.pc = "primary_json"
    /\ an' = PrimaryJsonStep(an, json)
    /\ UNCHANGED <<stats, application, tasks, delivered, ncalls>>

\* line 89: the await of the retry's session.post returns or raises
RetryResponse(resp) ==
    /\ an.pc = "retry"
    /\ an' = RetryStep(an, resp)
    /\ UNCHANGED <<stats, application, tasks, delivered, ncalls>>

\* line 94: the await of retry_response.text() returns or raises
RetryText(read) ==
    /\ an.pc = "retry_text"
    /\ an' = RetryTextStep(an, read)
    /\ UNCHANGED <<stats, application, tasks, delivered, ncalls>>

\* line 98: the await of retry_response.json() returns or raises
RetryJson(json) ==
    /\ an.pc = "retry_json"
    /\ an' = RetryJsonStep(an, json)
    /\ UNCHANGED <<stats, application, tasks, delivered, ncalls>>

\* lines 72, 73, 89: the await in the exit of an async-with block returns
ContextExit ==
    /\ an.pc = "closing"
    /\ an' = ExitStep(an)
    /\ UNCHANGED <<stats, application, tasks, delivered, ncalls>>

-----------------------------------------------------------------------------
(* What analyze_text hands on to the dispatcher *)

\* every value analyze_text can return for a 200 answer carrying a JSON
\* object, with the default analysis and the "no result" sentinel
AnalyzeResults ==
    {FillDefaults(d) : d \in ObjectDocs} \cup {DefaultAnalysis, None}

sPositiveUpper == <<"P","O","S","I","T","I","V","E">>
sNegativeMixed == <<"N","e","g","a","t","i","v","e">>

\* values of the sentiment key of an analysis handed to an alert
RenderSentiments ==
    {JStr(sPositive), JStr(sNegative), JStr(sNeutral), JStr(sPositiveUpper),
     JStr(sNegativeMixed), JStr(<<"b","u","l","l","i","s","h">>), JStr(<<>>), None}

\* the dict v without key
Without(v, key) ==
    Dict(SelectSeq(v.ks, LAMBDA k : k # key), [k \in DOMAIN v.d \ {key} |-> v.d[k]])

\* the dicts an analysis handed to an alert is one of, but for its
\* sentiment key
RenderBases == {JDict(EmptyDict), PositiveAnalysis, DocFull, DefaultAnalysis}

\* the analyses an alert is called with: what analyze_text returns, and
\* dicts built by any other caller, with or without a sentiment key
RenderAnalyses ==
    AnalyzeResults
    \cup {Without(base, "sentiment") : base \in RenderBases}
    \cup {SetItem(base, "sentiment", sv) : sv \in RenderSentiments, base \in RenderBases}

-----------------------------------------------------------------------------
(* Specifications *)

Init ==
    /\ stats = StatsInit
    /\ application = "None"
    /\ tasks = [t \in Tasks |-> IdleTask]
    /\ delivered = [k \in Kinds |-> [i \in Ids |-> 0]]
    /\ ncalls = 0
    /\ an = IdleAnalyze

NextDeliver ==
    \/ build_application
    \/ reset
    \/ \E id \in Ids, relevant \in RelevantFlags, now \in Clock : PollerRecordTweet(id, relevant, now)
    \/ \E id \in Ids, relevant \in RelevantFlags, now \in Clock : PollerRecordNews(id, relevant, now)
    \/ \E t \in Tasks, id \in Ids, a \in DeliverAnalyses : TweetAlertCall(t, id, a)
    \/ \E t \in Tasks, id \in Ids, a \in DeliverAnalyses : NewsAlertCall(t, id, a)
    \/ \E t \in Tasks, ok \in BOOLEAN : ChannelReply(t, ok)
    \/ \E t \in Tasks : TweetAlertResume(t)
    \/ \E t \in Tasks : NewsAlertResume(t)

NextAnalyze ==
    \/ \E text \in Texts : analyze_text(text)
    \/ \E resp \in Responses : PrimaryResponse(resp)
    \/ \E read \in TextReads : PrimaryText(read)
    \/ \E json \in JsonReads : PrimaryJson(json)
    \/ \E resp \in Responses : RetryResponse(resp)
    \/ \E read \in TextReads : RetryText(read)
    \/ \E json \in JsonReads : RetryJson(json)
    \/ ContextExit

\* the classifier at work while the producer records a tweet and reset
\* clears the counters
NextAnalyzeStore ==
    \/ NextAnalyze
    \/ reset
    \/ \E relevant \in RelevantFlags, now \in Clock : PollerRecordTweet("42", relevant, now)

\* one caller awaiting one alert at a time, over every analysis
NextRender ==
    \/ build_application
    \/ \E id \in Ids, a \in RenderAnalyses : TweetAlertCall("t1", id, a)
    \/ \E id \in Ids, a \in RenderAnalyses : NewsAlertCall("t1", id, a)
    \/ \E ok \in BOOLEAN : ChannelReply("t1", ok)
    \/ TweetAlertResume("t1")
    \/ NewsAlertResume("t1")

Next == NextDeliver \/ NextAnalyzeStore \/ NextRender

\* the dispatcher and the counter store, with the producer and the channel
SpecDeliver == Init /\ [][NextDeliver]_vars

\* the classifier with the classification service
SpecAnalyze == Init /\ [][NextAnalyze]_vars

\* the classifier beside a counter store that is in use
SpecAnalyzeStore == Init /\ [][NextAnalyzeStore]_vars

\* the message formatting of the dispatcher, one alert at a time
SpecRender == Init /\ [][NextRender]_vars

Spec == Init /\ [][Next]_vars

-----------------------------------------------------------------------------
(* Claims about the Alert Dispatcher and the Counter Store (SpecDeliver) *)

SentOf(s, kind) == IF kind = "tweet" THEN s.tweets_sent ELSE s.news_sent
SeenOf(s, kind) == IF kind = "tweet" THEN s.processed_tweet_ids ELSE s.processed_news_ids

\* task t takes the step that starts a call with the application built
CallStarts(t) ==
    /\ tasks[t].pc \in {"idle", "done"}
    /\ ncalls' = ncalls + 1
    /\ tasks'[t] # tasks[t] \/ tasks[t].pc = "done"
    /\ application = "built"

\* task t takes the step in which its coroutine resumes after the channel's answer
Resumes(t) == tasks[t].pc = "replied" /\ tasks'[t].pc = "done"

\* C1: a call made for an item id whose alert the channel has already
\* delivered (same origin kind), made when no other call is in progress, is a
\* no-op: it asks the channel for nothing and leaves the store as it is, so
\* that two calls with one id make one send and raise the sent counter by one.
C1_SecondDeliverIsNoOp ==
    [][\A t \in Tasks :
          (CallStarts(t) /\ tasks'[t].kind \in Kinds
             /\ (\A u \in Tasks : tasks[u].pc \in {"idle", "done"})
             /\ delivered[tasks'[t].kind][tasks'[t].id] >= 1)
          => (tasks'[t].pc = "done" /\ stats' = stats)]_vars

\* C2: two deliveries of one item id and origin kind are never both past the
\* not-seen check at once, whatever the interleaving at the channel send.
C2_NoConcurrentDuplicateSend ==
    \A t1, t2 \in Tasks :
        (t1 # t2 /\ tasks[t1].pc \in {"sending", "replied"}
                 /\ tasks[t2].pc \in {"sending", "replied"})
        => ~(tasks[t1].kind = tasks[t2].kind /\ tasks[t1].id = tasks[t2].id)

\* C3: when a call resumes after a send the channel confirmed, the sent
\* counter of its origin goes up by one and the item id is in that origin's
\* seen-id set; a call that is still waiting for the channel changes neither.
C3_SuccessUpdatesCounterAndSeenSet ==
    [][\A t \in Tasks :
          /\ (Resumes(t) /\ tasks[t].outcome = "ok")
                => /\ SentOf(stats', tasks[t].kind) = SentOf(stats, tasks[t].kind) + 1
                   /\ tasks[t].id \in SeenOf(stats', tasks[t].kind)
          /\ (tasks[t].pc = "sending" /\ tasks'[t] # tasks[t])
                => stats' = stats]_vars

\* C4: when the channel's send fails, the call ends without an exception,
\* reports false to its caller, and the whole Counter Store is as it was
\* before the call resumed; the channel's failing answer changes nothing in
\* the store either.
C4_FailureReportsFalse ==
    [][\A t \in Tasks :
          /\ (Resumes(t) /\ tasks[t].outcome = "failed")
                => (stats' = stats /\ tasks'[t].exc = "none" /\ tasks'[t].ret = "False")
          /\ (tasks[t].pc = "sending" /\ tasks'[t].outcome = "failed")
                => stats' = stats]_vars

\* C5: a reset step leaves all six counters at 0 and both timestamps unset,
\* and both seen-id sets with exactly the members they had.
C5_ResetZeroesCountersKeepsSeenIds ==
    [][reset =>
          /\ stats'.tweets_processed = 0 /\ stats'.tweets_relevant = 0
          /\ stats'.tweets_sent = 0
          /\ stats'.news_processed = 0 /\ stats'.news_relevant = 0
          /\ stats'.news_sent = 0
          /\ stats'.last_tweet_check = None /\ stats'.last_news_check = None
          /\ stats'.processed_tweet_ids = stats.processed_tweet_ids
          /\ stats'.processed_news_ids = stats.processed_news_ids]_vars

\* a store that only a reset leaves behind: items were polled and alerts were
\* delivered and counted for both kinds, yet every counter is 0, both
\* timestamps are unset and both seen-id sets still hold their ids
C5_Witness ==
    /\ stats.processed_tweet_ids = Ids /\ stats.processed_news_ids # {}
    /\ \E i \in Ids : delivered["tweet"][i] > 0
    /\ \E i \in Ids : delivered["news"][i] > 0
    /\ \A t \in Tasks : tasks[t].pc = "done" /\ tasks[t].outcome = "ok"
    /\ stats.tweets_processed = 0 /\ stats.tweets_relevant = 0 /\ stats.tweets_sent = 0
    /\ stats.news_processed = 0 /\ stats.news_relevant = 0 /\ stats.news_sent = 0
    /\ stats.last_tweet_check = None /\ stats.last_news_check = None

-----------------------------------------------------------------------------
(* Claims about the Classifier (SpecAnalyze) *)

\* the error bodies that name a missing or invalid model, in whatever case
UnavailableBodies ==
    {bModelNotFoundMixed, bModelNotFoundLower, bInvalidModelUpper, bInvalidModelLower}

\* a text with nothing in it but whitespace (the empty text included)
OnlyWhitespace(text) == \A i \in 1..Len(text) : text[i] \in Whitespace

\* C6: a call with an empty or whitespace-only text has ended at once with
\* the "no result" sentinel, which is not the default analysis, and has sent
\* no request to the classification service.
C6_BlankTextSentinelNoCall ==
    (an.pc # "idle" /\ OnlyWhitespace(an.text))
    => /\ an.pc = "done"
       /\ an.result = None
       /\ an.result # DefaultAnalysis
       /\ an.requests = <<>>

\* a call with a whitespace-only text of two characters has ended
C6_Witness == an.pc = "done" /\ an.text = <<" ", "U00A0">>

\* C7: once the primary request has failed with a body that names a missing
\* or invalid model (in any case), exactly one further request has been made,
\* to the secondary model, and when that retry fails too (an error status or
\* a transport error) the call has ended with the default analysis.
C7_ModelUnavailableRetriesOnce ==
    (an.primary = "error" /\ an.error_text \in UnavailableBodies)
    => /\ an.requests = <<"gpt-4", "gpt-3.5-turbo">>
       /\ an.pc \in {"retry", "retry_text", "retry_json", "closing", "done"}
       /\ (an.retry \in {"error", "exception"}
             => /\ an.pc \in {"retry_text", "closing", "done"}
                /\ an.pc = "done" => an.result = DefaultAnalysis)

\* a mixed-case "Model Not Found" on the primary, then a failed retry
C7_Witness ==
    /\ an.pc = "done" /\ an.primary = "error" /\ an.error_text = bModelNotFoundMixed
    /\ an.retry = "error" /\ an.requests = <<"gpt-4", "gpt-3.5-turbo">>

\* C8: once the primary request has failed with a transport error or with an
\* error status whose body names no missing or invalid model, the call has
\* ended with the default analysis after that one request; and a second
\* request is only ever made after an error body that names such a model.
C8_GenericFailureDefaultsNoRetry ==
    /\ (an.primary = "exception"
          \/ (an.primary = "error" /\ an.error_text \notin UnavailableBodies))
       => /\ an.pc \in {"primary_text", "closing", "done"}
          /\ an.requests = <<"gpt-4">>
          /\ an.pc = "done" => an.result = DefaultAnalysis
    /\ (an.pc \in {"retry", "retry_text", "retry_json"} \/ Len(an.requests) > 1)
       => (an.primary = "error" /\ an.error_text \in UnavailableBodies)

\* a 500 with "Internal Server Error" has ended the call
C8_Witness ==
    /\ an.pc = "done" /\ an.primary = "error" /\ an.status = 500
    /\ an.error_text = bServerError /\ an.result = DefaultAnalysis

\* C9: whatever the service answers, a call makes at most two requests.
C9_AtMostTwoRequests == Len(an.requests) <= 2

\* the retry itself was answered with a body naming a missing model
C9_Witness ==
    /\ an.pc = "done" /\ an.retry = "error" /\ an.retry_error \in UnavailableBodies
    /\ Len(an.requests) = 2

\* the field domains of an AnalysisResult
WellFormed(r) ==
    /\ r.t = "dict"
    /\ {"relevant", "sentiment", "entities", "commentary", "confidence"} \subseteq DOMAIN r.d
    /\ r.d["relevant"].t = "bool"
    /\ r.d["sentiment"] \in {JStr(sPositive), JStr(sNeutral), JStr(sNegative)}
    /\ r.d["entities"].t = "list"
    /\ \A i \in 1..Len(r.d["entities"].l) : r.d["entities"].l[i].t = "str"
    /\ r.d["commentary"].t = "str"
    /\ r.d["confidence"].t = "num"
    /\ r.d["confidence"].n >= 0 /\ r.d["confidence"].n <= 100

\* C10: every result a call returns for a text that is not blank has all
\* five fields, each within its domain, whatever the service answered.
C10_ResultAlwaysWellFormed ==
    (an.pc = "done" /\ an.result # None) => WellFormed(an.result)

-----------------------------------------------------------------------------
(* Claims about response parsing (SpecAnalyze) *)

FiveFields == {"relevant", "sentiment", "entities", "commentary", "confidence"}

\* the per-field default of an absent field
FieldDefault(k) ==
    CASE k = "relevant" -> JBool(TRUE)
      [] k = "sentiment" -> JStr(sNeutral)
      [] k = "entities" -> JList(<<>>)
      [] k = "commentary" -> JStr(sNoCommentary)
      [] k = "confidence" -> JNum(50)

\* document d with every field it has kept and every absent field defaulted
Backfilled(d) ==
    [k \in DOMAIN d.d \cup FiveFields |->
        IF k \in DOMAIN d.d THEN d.d[k] ELSE FieldDefault(k)]

\* C11: when a 200 answer (to the primary request or to the retry) carries,
\* as the content of its first choice, the JSON text of an object that has
\* any subset of the five fields, the call has ended with a result that has
\* every field of the object unchanged and the per-field default for each
\* absent field; with only confidence absent the result has confidence 0.5
\* and the object's other four fields.
C11_AbsentFieldsBackfilled ==
    \A d \in ObjectDocs :
        (an.pc = "done" /\ an.decoded = WithContent(JText(d)))
        => an.result.t = "dict" /\ an.result.d = Backfilled(d)

\* the answer without confidence has been returned with confidence 0.5 and
\* its own relevant, sentiment, entities and commentary
C11_Witness ==
    /\ an.pc = "done" /\ an.primary = "ok"
    /\ an.decoded = WithContent(JText(DocNoConfidence))
    /\ an.result.t = "dict"
    /\ an.result.d = DocNoConfidence.d @@ ("confidence" :> JNum(50))
    /\ an.result.d["sentiment"] = JStr(sPositive)
    /\ an.result.d["relevant"] = JBool(FALSE)

\* decoded bodies that have no first choice
NoFirstChoice == {JDict(EmptyDict), JDict(<<<<"choices", JList(<<>>)>>>>)}

\* first-choice contents that are not the JSON text of an object: text that
\* is not JSON, a content that is no text, JSON text of another document
BadContents ==
    {JStr(<<"o","o","p","s">>), JStr(<<>>), None, JNum(5),
     JText(JList(<<>>)), JText(JNum(5)), JText(None), JText(JStr(<<"x">>))}

\* decoded bodies in which the choices key, the message or the content is
\* simply absent
MissingKeyPayloads ==
    {JDict(EmptyDict),
     JDict(<<<<"choices", JList(<<JDict(EmptyDict)>>)>>>>),
     JDict(<<<<"choices", JList(<<JDict(<<<<"message", JDict(EmptyDict)>>>>)>>)>>>>)}

\* decoded bodies of the wrong structure
BrokenPayloads ==
    {None, JList(<<>>),
     JDict(<<<<"choices", JList(<<>>)>>>>),
     JDict(<<<<"choices", None>>>>),
     JDict(<<<<"choices", JStr(<<"a","b","c">>)>>>>),
     JDict(<<<<"choices", JStr(<<>>)>>>>),
     JDict(<<<<"choices", JList(<<None>>)>>>>),
     JDict(<<<<"choices", JList(<<JDict(<<<<"message", None>>>>)>>)>>>>)}
    \cup {WithContent(c) : c \in BadContents}

\* C12 as stated: a call whose 200 answer has no first choice, or a content
\* that is not valid JSON, is of the wrong type or is not a JSON object, has
\* ended with exactly the default analysis.
C12_UnparseableGivesDefault ==
    (/\ an.pc = "done"
     /\ an.decoded \in NoFirstChoice \cup {WithContent(c) : c \in BadContents})
    => an.result = DefaultAnalysis

\* C12 as amended: a call whose 200 answer does not decode, or has an empty
\* choices list, or has a choices value, a first choice or a message that is
\* null or of the wrong type, or has a content that is not valid JSON, is no
\* text or is not a JSON object, has ended with exactly the default
\* analysis; a call whose answer lacks the choices key, the message or the
\* content has read it as an empty object and ended with the per-field
\* defaults, whose commentary is "No commentary available" and not that of
\* the default analysis.
C12_BrokenGivesDefaultAbsentGivesBackfill ==
    an.pc = "done"
    => /\ (an.exc = "ContentTypeError" \/ an.decoded \in BrokenPayloads)
          => an.result = DefaultAnalysis
       /\ an.decoded \in MissingKeyPayloads
          => /\ an.result.t = "dict"
             /\ an.result.d = Backfilled(DocEmpty)
             /\ an.result # DefaultAnalysis

\* a 200 answer with an empty choices list has ended the call by the
\* default analysis
C12_Witness ==
    /\ an.pc = "done" /\ an.primary = "ok" /\ an.exc = "IndexError"
    /\ an.decoded = JDict(<<<<"choices", JList(<<>>)>>>>)
    /\ an.result = DefaultAnalysis

-----------------------------------------------------------------------------
(* Claims about the messages of the Alert Dispatcher (SpecRender) *)

\* C13: the dispatcher never raises to its caller: called with any result
\* analyze_text returns for an answered request, null and wrongly typed
\* field values included, an alert does not end in an exception.
C13_DeliverNeverRaises ==
    [][\A id \in Ids, a \in AnalyzeResults \ {None} :
          (/\ application = "built"
           /\ TweetAlertCall("t1", id, a) \/ NewsAlertCall("t1", id, a))
          => tasks'["t1"].exc = "none"]_vars

sEightySevenPercent == <<"8", "7", "%">>

\* C15: a news alert for an analysis of sentiment positive and confidence
\* 0.87, delivered while news_sent is 0, has sent a message with the bullish
\* market indicator and the confidence "87%", and leaves news_sent at 1.
C15_NewsAlertShowsBullishAnd87Percent ==
    [][(/\ tasks["t1"].kind = "news"
        /\ tasks["t1"].analysis = PositiveAnalysis
        /\ tasks["t1"].outcome = "ok"
        /\ stats.news_sent = 0
        /\ NewsAlertResume("t1"))
       => LET m == MessageOf(tasks["t1"])
          IN  /\ stats'.news_sent = 1
              /\ m.market_indicator = "GREEN_CIRCLE BULLISH"
              /\ "confidence" \in DOMAIN m
              /\ m.confidence = sEightySevenPercent]_vars

\* the label the sentiment value alone calls for, letter case set aside
ExpectedLabel(a) ==
    IF "sentiment" \in DOMAIN a.d /\ a.d["sentiment"].t = "str"
    THEN IF Lower(a.d["sentiment"].s) = sPositive THEN "GREEN_CIRCLE BULLISH"
         ELSE IF Lower(a.d["sentiment"].s) = sNegative THEN "RED_CIRCLE BEARISH"
         ELSE "WHITE_CIRCLE NEUTRAL"
    ELSE "WHITE_CIRCLE NEUTRAL"

\* C16: a news alert called with any analysis sends a message whose market
\* label depends on the sentiment value alone: bullish for positive, bearish
\* for negative, neutral for any other value and for a missing one, whatever
\* the other fields and the article.
C16_LabelFromSentimentAlone ==
    [][\A id \in Ids, a \in RenderAnalyses \ {None} :
          (application = "built" /\ NewsAlertCall("t1", id, a))
          => /\ tasks'["t1"].pc = "sending"
             /\ MessageOf(tasks'["t1"]).market_indicator = ExpectedLabel(a)]_vars

\* C17: the entities field of a tweet alert's message is the entity list
\* joined in order, and is "None" when the list is empty.
C17_EmptyEntitiesRenderNone ==
    LET task == tasks["t1"]
    IN  (/\ task.pc \in {"sending", "replied"}
         /\ task.kind = "tweet"
         /\ "entities" \in DOMAIN task.analysis.d
         /\ task.analysis.d["entities"].t = "list")
        => LET l == task.analysis.d["entities"].l
           IN  MessageOf(task).entities =
                   IF l = <<>> THEN sNone
                   ELSE Join([i \in 1..Len(l) |-> l[i].s], sCommaSpace)

-----------------------------------------------------------------------------
(* Claims about the Classifier and the Counter Store (SpecAnalyzeStore) *)

\* C14: no step of analyze_text, on any of its paths (sentinel, parsed
\* result, retry, default analysis), changes a counter, a timestamp or a
\* seen-id set of the Counter Store.
C14_AnalyzeLeavesStoreUnchanged ==
    [][an' # an => stats' = stats]_vars

\* a call has ended by the retry's parsed result while the store holds a
\* polled tweet
C14_Witness ==
    /\ an.pc = "done" /\ an.retry = "ok" /\ an.result \notin {None, DefaultAnalysis}
    /\ stats.tweets_processed = 1
    /\ stats.processed_tweet_ids = {"42"}
    /\ stats.last_tweet_check # None

-----------------------------------------------------------------------------
(* Claims about the sent counters under concurrent alerts (SpecDeliver) *)

RECURSIVE SumOver(_, _)
SumOver(f, S) ==
    IF S = {} THEN 0
    ELSE LET x == CHOOSE y \in S : TRUE IN f[x] + SumOver(f, S \ {x})

\* the channel sends of a kind that succeeded
Succeeded(kind) == SumOver(delivered[kind], Ids)

\* the alerts of a kind whose send succeeded and whose coroutine has not yet resumed
AwaitingResume(kind) ==
    Cardinality({t \in Tasks : /\ tasks[t].pc = "replied"
                               /\ tasks[t].kind = kind
                               /\ tasks[t].outcome = "ok"})

\* how far the sent counter of a kind is behind the sends that succeeded,
\* the alerts still to resume set aside
Lag(kind) == Succeeded(kind) - AwaitingResume(kind) - SentOf(stats, kind)

\* C18: in every step other than reset, under any interleaving of tweet and
\* news alerts, each sent counter stays exactly as far from the number of
\* channel sends of its kind that succeeded (every success is counted once,
\* when its coroutine resumes: none lost, none twice), and no sent counter
\* decreases.
C18_SentCountsSucceededSends ==
    [][\/ reset
       \/ \A kind \in Kinds :
             /\ Lag(kind)' = Lag(kind)
             /\ SentOf(stats', kind) >= SentOf(stats, kind)]_vars

\* a tweet alert and a news alert, both delivered, have both been counted
C18_Witness ==
    /\ tasks["t1"].pc = "done" /\ tasks["t1"].kind = "tweet" /\ tasks["t1"].outcome = "ok"
    /\ tasks["t2"].pc = "done" /\ tasks["t2"].kind = "news" /\ tasks["t2"].outcome = "ok"
    /\ stats.tweets_sent = 1 /\ stats.news_sent = 1
    /\ Succeeded("tweet") = 1 /\ Succeeded("news") = 1

\* the store with the sent counter of one kind put back to an earlier value
WithSent(s, kind, n) ==
    IF kind = "tweet" THEN [s EXCEPT !.tweets_sent = n]
    ELSE IF kind = "news" THEN [s EXCEPT !.news_sent = n]
    ELSE s

\* C19: a step of an alert, whether its send succeeded or failed, changes
\* nothing in the store but the sent counter of the alert's own kind: the
\* other kind's sent counter, the processed and relevant counters, both
\* timestamps and both seen-id sets keep their values.
C19_AlertChangesOnlyItsOwnSentCounter ==
    [][\A t \in Tasks :
          tasks'[t] # tasks[t]
          => WithSent(stats', tasks[t].kind, SentOf(stats, tasks[t].kind)) = stats]_vars

\* a news alert has been delivered and counted, and a tweet alert has
\* failed, in a store that holds polled items of both kinds
C19_Witness ==
    /\ tasks["t1"].pc = "done" /\ tasks["t1"].kind = "tweet" /\ tasks["t1"].outcome = "failed"
    /\ tasks["t2"].pc = "done" /\ tasks["t2"].kind = "news" /\ tasks["t2"].outcome = "ok"
    /\ stats.news_sent = 1 /\ stats.tweets_sent = 0
    /\ stats.tweets_processed = 1 /\ stats.tweets_relevant = 1
    /\ stats.processed_news_ids # {}
    /\ stats.last_tweet_check # None

\* C20: an alert called while the application is unset returns at once: it
\* hands nothing to the channel, raises nothing, and leaves every counter
\* and seen-id set, and the channel's deliveries, as they were.
C20_UnbuiltApplicationReturnsAtOnce ==
    [][\A t \in Tasks :
          (/\ application = "None"
           /\ tasks[t].pc \in {"idle", "done"}
           /\ ncalls' = ncalls + 1
           /\ tasks'[t] # tasks[t] \/ tasks[t].pc = "done"
           /\ \A u \in Tasks \ {t} : tasks'[u] = tasks[u])
          => /\ tasks'[t].pc = "done"
             /\ tasks'[t].ret = "None"
             /\ tasks'[t].exc = "none"
             /\ stats' = stats
             /\ delivered' = delivered]_vars

\* both kinds of alert have been called and have returned with the
\* application unset, and the channel has delivered nothing
C20_Witness ==
    /\ application = "None"
    /\ tasks["t1"].pc = "done" /\ tasks["t1"].kind = "tweet" /\ tasks["t1"].ret = "None"
    /\ tasks["t2"].pc = "done" /\ tasks["t2"].kind = "news" /\ tasks["t2"].ret = "None"
    /\ ncalls = 2
    /\ \A k \in Kinds, i \in Ids : delivered[k][i] = 0

====
